---------------------------- MODULE Spec2Model ----------------------------
(***************************************************************************)
(* Expense approval workflow (pagos-ftf): the tables expenses,             *)
(* expense_logs, expense_comments and user_roles, the f_cud.py write       *)
(* helpers, the f_auth.py role guards and the save handlers of the         *)
(* solicitante, aprobador, pagador and administrador pages.                *)
(*                                                                         *)
(* Every database call is one atomic step.  update_expense_status and      *)
(* mark_expense_as_paid issue two calls (the row update, then the log      *)
(* insert), so a session that has done the first and not yet the second    *)
(* sits at pc = "log".  A page run that reads an expense and the handler   *)
(* that later writes it are two steps too (pc = "loaded" in between).      *)
(*                                                                         *)
(* The pagador page passes its document key by the keyword                 *)
(* payment_doc_key; the model binds it to the document parameter of        *)
(* f_cud.mark_expense_as_paid (payment_doc_folder).  The payment_date      *)
(* keyword has no counterpart in f_cud.py and is not stored.               *)
(***************************************************************************)
EXTENDS Integers, Sequences, FiniteSets, TLC

\* ------------------------------------------------------------------ bounds
MaxExpenses == 1
MaxLogs == 3
MaxLogFailures == 1
MaxComments == 1
MaxRoles == 2
MaxSimilarRows == 21

\* --------------------------------------------------------------- constants
NULL == "NULL"

Users == {"u1", "u2"}
Sessions == {"s1", "s2"}

ROLES_ES == <<"administrador", "solicitante", "aprobador", "pagador", "lector">>
VALID_ROLES == {"administrador", "solicitante", "aprobador", "pagador", "lector"}
ESTADOS == {"solicitado", "aprobado", "rechazado", "pagado"}
VALID_FOR_APPROVER == {"solicitado", "aprobado", "rechazado"}
estados_actualizables == {"solicitado", "aprobado", "rechazado"}
estados_pagador == {"aprobado", "pagado", "rechazado"}

\* The role checkboxes ticked and unticked on the administrador page.
EditedRoles == {ROLES_ES[i] : i \in 1..MaxRoles}

\* The user_roles table the lifecycle specification starts from.
RoleConfigs ==
  {[u \in Users |-> IF u = "u1" THEN {"solicitante"} ELSE {"aprobador", "pagador"}],
   [u \in Users |-> IF u = "u1" THEN {"administrador"} ELSE {"pagador"}]}

\* Texts typed into a comment box; Strip is str.strip() on them.
Texts == {"", " ok "}
Strip(t) == IF t = " ok " THEN "ok" ELSE IF t = " " THEN "" ELSE t

\* Amounts typed into the "Monto" box, in thousandths of a unit (0.000,
\* 0.004, 100.000, 100.006, 150.000), and round(float(amount), 2) in
\* hundredths.
AmountInputs == {0, 4, 100000, 100006, 150000}
Round2(mills) ==
  LET q == mills \div 10
      r == mills % 10
  IN  IF r < 5 THEN q
      ELSE IF r > 5 THEN q + 1
      ELSE IF q % 2 = 0 THEN q ELSE q + 1

Suppliers == {"sup1"}
Categories == {"Servicios"}

\* Days: the day the model runs on.  created_at of a stored row is a day.
Today == 100

\* recent_similar_expenses: `.limit(20)`, and `days=30` as the page calls it.
SimilarLimit == 20
SimilarDays == 30

VARIABLES
  expenses,          \* table public.expenses: sequence of rows, id = index
  expense_logs,      \* table public.expense_logs, in insertion order
  expense_comments,  \* table public.expense_comments, in insertion order
  user_roles,        \* table public.user_roles: user -> set of roles
  sb_session,        \* st.session_state["sb_session"] of each browser session
  all_users_cache,   \* st.cache_data of get_all_users(): the cached roles
  pc,                \* position of each session's script run
  page,              \* page whose guard the session's run has passed
  exp,               \* the row read by get_expense_by_id_for_approver
  call,              \* the f_cud call in progress: its pending log insert
  outcome,           \* what the last step reported: session, res
  log_failures,      \* number of expense_logs inserts that raised
  dupes,             \* what recent_similar_expenses last returned, and for what
  similar_cache,     \* st.cache_data of recent_similar_expenses, by arguments
  roles_call,        \* set_user_roles under way or last made by each session
  otp_sent,          \* st.session_state["otp_sent"] of each session
  otp_email,         \* st.session_state["otp_email"] of each session
  app_users,         \* the emails is_registered_email answers True for
  sent_otps          \* the emails send_login_otp was called with, in order

vars == <<expenses, expense_logs, expense_comments, user_roles, sb_session,
          all_users_cache, pc, page, exp, call, outcome, log_failures,
          dupes, similar_cache, roles_call, otp_sent, otp_email, app_users,
          sent_otps>>

login_vars == <<otp_sent, otp_email, app_users, sent_otps>>

NoExp == [id |-> 0, status |-> NULL, supporting_doc_key |-> NULL]
NoCall == [fn |-> NULL, log |-> NULL]
NoCache == [valid |-> FALSE, roles |-> [u \in Users |-> {}]]
NoOutcome == [s |-> NULL, res |-> NULL, warning |-> FALSE]

\* The arguments recent_similar_expenses is called with by the solicitante
\* page: a supplier and the amount typed (thousandths).
SimilarSuppliers == {"sup1"}
SimilarAmounts == {100000, 100004, 100010}
SimilarArgs == SimilarSuppliers \X SimilarAmounts
NoDupes == [supplier_id |-> NULL, amount |-> 0, ids |-> <<>>]
NoSimilarCache == [a \in SimilarArgs |-> [valid |-> FALSE, ids |-> <<>>]]

\* No set_user_roles was called; nobody is logging in.
Emails == {"a@x", "b@x"}
NoRolesCall == [s \in Sessions |-> [user_id |-> NULL, old |-> {}, new |-> {}]]
NoLogin ==
  /\ otp_sent = [s \in Sessions |-> FALSE]
  /\ otp_email = [s \in Sessions |-> ""]
  /\ app_users \in {{"a@x"}}
  /\ sent_otps = <<>>

Report(s, op, res) == [s |-> s, res |-> res, warning |-> FALSE]

\* ------------------------------------------------------------- f_auth.py
current_user(s) == sb_session[s]

has_role(s, role_es) ==
  /\ current_user(s) # NULL
  /\ role_es \in user_roles[current_user(s)]

require_login(s) == current_user(s) # NULL

require_administrador(s) ==
  require_login(s) /\ has_role(s, "administrador")

require_solicitante(s) ==
  require_login(s) /\ (has_role(s, "solicitante") \/ has_role(s, "administrador"))

require_aprobador(s) ==
  require_login(s) /\ (has_role(s, "aprobador") \/ has_role(s, "administrador"))

require_pagador(s) ==
  require_login(s) /\ (has_role(s, "pagador") \/ has_role(s, "administrador"))

require_lector_any_user(s) ==
  require_login(s)

require_lector(s) ==
  require_login(s) /\ (has_role(s, "lector") \/ has_role(s, "administrador"))

\* -------------------------------------------------------------- f_read.py
get_expense_by_id_for_approver(expense_id) ==
  IF expense_id \in 1..Len(expenses)
  THEN [id |-> expense_id,
        status |-> expenses[expense_id].status,
        supporting_doc_key |-> expenses[expense_id].supporting_doc_key]
  ELSE NoExp

\* The ids of a set of rows of the table, newest first (created_at desc;
\* rows of the same day by id desc).
RECURSIVE OrderDesc(_, _)
OrderDesc(table, ids) ==
  IF ids = {} THEN <<>>
  ELSE LET newest == CHOOSE i \in ids : \A j \in ids :
                       \/ table[i].created_at > table[j].created_at
                       \/ table[i].created_at = table[j].created_at /\ i >= j
       IN  <<newest>> \o OrderDesc(table, ids \ {newest})

\* The filter of recent_similar_expenses, were the `.gte("created_at", since)` left out.
SimilarMatches_any_age(table, supplier_id, amount, days) ==
  {i \in 1..Len(table) :
     /\ table[i].supplier_id = supplier_id
     /\ table[i].amount = Round2(amount)}

\* The filter of recent_similar_expenses: .eq supplier_id, .eq amount
\* rounded to two decimals, .gte created_at (now - days).
SimilarMatches(table, supplier_id, amount, days) ==
  {i \in 1..Len(table) :
     /\ table[i].supplier_id = supplier_id
     /\ table[i].amount = Round2(amount)
     /\ table[i].created_at >= Today - days}

\* recent_similar_expenses without its cache: filter, order, limit.
recent_similar_expenses(table, supplier_id, amount, days) ==
  LET ordered == OrderDesc(table, SimilarMatches(table, supplier_id, amount, days))
  IN  SubSeq(ordered, 1, IF Len(ordered) < SimilarLimit THEN Len(ordered)
                         ELSE SimilarLimit)

\* -------------------------------------------------------------- f_cud.py
\* `if not (expense_id and actor_id and action)` of create_expense_log.
create_expense_log_valid(expense_id, actor_id, action) ==
  expense_id # 0 /\ actor_id # NULL /\ action # NULL

create_expense_log_payload(expense_id, actor_id, action, details) ==
  [expense_id |-> expense_id, actor_id |-> actor_id, action |-> action,
   details |-> details]

\* expense_logs_insert, were the entry written over the last one.
expense_logs_insert_over_last(logs, payload) ==
  IF logs = <<>> THEN <<payload>> ELSE [logs EXCEPT ![Len(logs)] = payload]

\* `.table("expense_logs").insert(payload).execute()`: one row more, the
\* rows there untouched.
expense_logs_insert(logs, payload) ==
  Append(logs, payload)

\* create_expense_row, were the requester left out of the payload.
create_expense_row_anonymous(requested_by, supplier_id, amount, category, supporting_doc_key) ==
  [requested_by |-> NULL,
   supplier_id |-> supplier_id,
   amount |-> Round2(amount),
   category |-> category,
   supporting_doc_key |-> supporting_doc_key,
   status |-> "solicitado",
   approved_by |-> NULL,
   paid_by |-> NULL,
   payment_doc_key |-> NULL,
   created_at |-> Today]

\* The row create_expense inserts; status, approved_by, paid_by,
\* payment_doc_key and created_at (now()) take the column defaults.
create_expense_row(requested_by, supplier_id, amount, category, supporting_doc_key) ==
  [requested_by |-> requested_by,
   supplier_id |-> supplier_id,
   amount |-> Round2(amount),
   category |-> category,
   supporting_doc_key |-> supporting_doc_key,
   status |-> "solicitado",
   approved_by |-> NULL,
   paid_by |-> NULL,
   payment_doc_key |-> NULL,
   created_at |-> Today]

create_expense_details(supplier_id, amount, category, supporting_doc_key) ==
  [kind |-> "create", supplier_id |-> supplier_id, amount |-> Round2(amount),
   category |-> category, supporting_doc_folder |-> supporting_doc_key]

\* create_expense_result, were an exception of the log write let through.
create_expense_result_propagating(expense_id, log_raised) ==
  IF log_raised THEN "StorageError"
  ELSE IF expense_id = 0 THEN "None" ELSE "id"

\* What create_expense hands to its caller: `except Exception: pass`, then
\* `return expense_id` (the new id, or None when the insert returned no
\* row).
create_expense_result(expense_id, log_raised) ==
  IF expense_id = 0 THEN "None" ELSE "id"

\* `if not (expense_id and actor_id and (text or "").strip())`.
add_expense_comment_valid(expense_id, actor_id, text) ==
  expense_id # 0 /\ actor_id # NULL /\ text # NULL /\ Strip(text) # ""

add_expense_comment_payload(expense_id, actor_id, text) ==
  [expense_id |-> expense_id, actor_id |-> actor_id, text |-> Strip(text)]

\* Values update_expense_status is called with as new_status: the page's
\* options, and what any other caller may pass.
StatusInputs ==
  {"solicitado", "aprobado", "rechazado", "pagado", " Aprobado ", "RECHAZADO",
   " PAGADO ", "cancelado", "", NULL}

\* `ns = (new_status or "").strip().lower()`.
StripLower(new_status) ==
  CASE new_status = NULL -> ""
    [] new_status = " Aprobado " -> "aprobado"
    [] new_status = "RECHAZADO" -> "rechazado"
    [] new_status = " PAGADO " -> "pagado"
    [] OTHER -> new_status

\* update_expense_status_valid, were every status of the lifecycle accepted.
update_expense_status_valid_with_pagado(ns) ==
  ns \in ESTADOS

\* update_expense_status_valid, were the check left out.
update_expense_status_valid_unchecked(ns) ==
  TRUE

\* `ns not in VALID_FOR_APPROVER` raises ValueError("Estado inválido para
\* aprobador."); ns is already trimmed/lower-cased.
update_expense_status_valid(ns) ==
  ns \in VALID_FOR_APPROVER

\* update_expense_status_row, were a return to "solicitado" to clear the approver.
update_expense_status_row_clearing(row, actor_id, ns) ==
  IF ns \in {"aprobado", "rechazado"}
  THEN [row EXCEPT !.status = ns, !.approved_by = actor_id]
  ELSE [row EXCEPT !.status = ns, !.approved_by = NULL]

\* The update dict applied to the row with id = expense_id.
update_expense_status_row(row, actor_id, ns) ==
  IF ns \in {"aprobado", "rechazado"}
  THEN [row EXCEPT !.status = ns, !.approved_by = actor_id]
  ELSE [row EXCEPT !.status = ns]

\* `if comment:` adds the comment key.
update_expense_status_details(ns, comment) ==
  IF comment # NULL /\ comment # ""
  THEN [kind |-> "status_change", new_status |-> ns, comment |-> comment]
  ELSE [kind |-> "status_change", new_status |-> ns]

\* mark_expense_as_paid_valid, were the document folder not required.
mark_expense_as_paid_valid_any_folder(expense_id, actor_id, payment_doc_folder) ==
  /\ expense_id # 0
  /\ actor_id # NULL

\* `if not (expense_id and actor_id and (payment_doc_folder or "").strip())`.
mark_expense_as_paid_valid(expense_id, actor_id, payment_doc_folder) ==
  /\ expense_id # 0
  /\ actor_id # NULL
  /\ payment_doc_folder # NULL
  /\ Strip(payment_doc_folder) # ""

\* mark_expense_as_paid_row, were the payer also recorded as the approver.
mark_expense_as_paid_row_approving(row, actor_id, payment_doc_folder) ==
  [row EXCEPT !.status = "pagado",
              !.payment_doc_key = Strip(payment_doc_folder),
              !.paid_by = actor_id,
              !.approved_by = actor_id]

\* The update dict {"status", "payment_doc_key", "paid_by"} applied to the row.
mark_expense_as_paid_row(row, actor_id, payment_doc_folder) ==
  [row EXCEPT !.status = "pagado",
              !.payment_doc_key = Strip(payment_doc_folder),
              !.paid_by = actor_id]

mark_expense_as_paid_details(payment_doc_folder, comment) ==
  IF comment # NULL /\ comment # ""
  THEN [kind |-> "status_change", new_status |-> "pagado",
        payment_doc_folder |-> payment_doc_folder, comment |-> comment]
  ELSE [kind |-> "status_change", new_status |-> "pagado",
        payment_doc_folder |-> payment_doc_folder]

\* ---------------------------------------------------------------- helpers
Idle(s) == pc[s] = "idle"

\* Room to start one more operation that logs: fewer than MaxLogs inserts
\* into expense_logs were tried so far (the failed ones counted).
LogRoom ==
  Len(expense_logs) + log_failures < MaxLogs

\* Room for one more submitted comment: the comment rows and the comments
\* carried in log details, written or pending.
HasComment(log) == "comment" \in DOMAIN log.details

CommentsUsed ==
  Len(expense_comments)
    + Cardinality({i \in 1..Len(expense_logs) : HasComment(expense_logs[i])})
    + Cardinality({t \in Sessions : pc[t] = "log" /\ HasComment(call[t].log)})

CommentRoom == CommentsUsed < MaxComments

ToIdle(s) ==
  /\ pc' = [pc EXCEPT ![s] = "idle"]
  /\ page' = [page EXCEPT ![s] = NULL]
  /\ exp' = [exp EXCEPT ![s] = NoExp]
  /\ call' = [call EXCEPT ![s] = NoCall]

\* -------------------------------------------------------------------- Init
Init ==
  /\ expenses = <<>>
  /\ expense_logs = <<>>
  /\ expense_comments = <<>>
  /\ user_roles \in RoleConfigs
  /\ sb_session = [s \in Sessions |-> IF s = "s1" THEN "u1" ELSE "u2"]
  /\ all_users_cache = NoCache
  /\ pc = [s \in Sessions |-> "idle"]
  /\ page = [s \in Sessions |-> NULL]
  /\ exp = [s \in Sessions |-> NoExp]
  /\ call = [s \in Sessions |-> NoCall]
  /\ outcome = NoOutcome
  /\ log_failures = 0
  /\ dupes = NoDupes
  /\ similar_cache = NoSimilarCache
  /\ roles_call = NoRolesCall
  /\ NoLogin

\* ------------------------------------------------- pages/solicitante.py
\* stored_key, were a failed upload passed over.
stored_key_unchecked(file, upload_ok) ==
  file

\* The key of the uploaded document: sb.storage.from_(bucket).upload
\* returns and the key falls back on file_path, or it raises (NULL) and
\* the handler's `except Exception` is reached.
stored_key(file, upload_ok) ==
  IF upload_ok THEN file ELSE NULL

\* "Enviar solicitud": the field checks, the upload, create_expense (row
\* insert, then the best-effort log insert) and the initial comment.
SolicitudNueva(s, supplier_id, amount, categoria, file, comentario_inicial, upload_ok, log_ok) ==
  /\ UNCHANGED <<dupes, similar_cache, roles_call, login_vars>>
  /\ Idle(s)
  /\ require_solicitante(s)
  /\ UNCHANGED <<user_roles, sb_session, all_users_cache, pc, page, exp, call>>
  /\ IF supplier_id = NULL \/ amount <= 0 \/ categoria = NULL \/ file = NULL
     THEN /\ outcome' = Report(s, "create_expense", "invalid")
          /\ UNCHANGED <<expenses, expense_logs, expense_comments, log_failures>>
     ELSE IF stored_key(file, upload_ok) = NULL
     THEN /\ outcome' = Report(s, "create_expense", "StorageError")
          /\ UNCHANGED <<expenses, expense_logs, expense_comments, log_failures>>
     ELSE LET user_id == current_user(s)
              expense_id == Len(expenses) + 1
              with_comment == Strip(comentario_inicial) # ""
          IN  /\ Len(expenses) < MaxExpenses
              /\ LogRoom
              /\ ~log_ok => log_failures < MaxLogFailures
              /\ log_failures' = IF log_ok THEN log_failures ELSE log_failures + 1
              /\ with_comment => CommentRoom
              /\ expenses' = Append(expenses,
                   create_expense_row(user_id, supplier_id, amount, categoria,
                                      stored_key(file, upload_ok)))
              /\ expense_logs' =
                   IF log_ok /\ create_expense_log_valid(expense_id, user_id, "create")
                   THEN expense_logs_insert(expense_logs,
                          create_expense_log_payload(expense_id, user_id, "create",
                            create_expense_details(supplier_id, amount, categoria,
                                                   stored_key(file, upload_ok))))
                   ELSE expense_logs
              /\ expense_comments' =
                   IF with_comment
                   THEN Append(expense_comments,
                          add_expense_comment_payload(expense_id, user_id,
                                                      Strip(comentario_inicial)))
                   ELSE expense_comments
              /\ outcome' = Report(s, "create_expense", "ok")

\* "Guardar comentario" of solicitud_detalle_fragment: the expense is one
\* of list_my_expenses(user_id); the only write is add_expense_comment.
SolicitanteComentar(s, sel_id, txt) ==
  /\ UNCHANGED <<dupes, similar_cache, roles_call, login_vars>>
  /\ Idle(s)
  /\ require_solicitante(s)
  /\ sel_id \in 1..Len(expenses)
  /\ expenses[sel_id].requested_by = current_user(s)
  /\ UNCHANGED <<expenses, expense_logs, user_roles, sb_session,
                 all_users_cache, pc, page, exp, call, log_failures>>
  /\ IF Strip(txt) = ""
     THEN /\ outcome' = Report(s, "add_expense_comment", "invalid")
          /\ UNCHANGED expense_comments
     ELSE /\ CommentRoom
          /\ add_expense_comment_valid(sel_id, current_user(s), Strip(txt))
          /\ expense_comments' = Append(expense_comments,
               add_expense_comment_payload(sel_id, current_user(s), Strip(txt)))
          /\ outcome' = Report(s, "add_expense_comment", "ok")

\* ------------------------------------------ aprobador.py and pagador.py
Require(s, p) ==
  CASE p = "solicitante" -> require_solicitante(s)
    [] p = "aprobador" -> require_aprobador(s)
    [] p = "pagador" -> require_pagador(s)
    [] p = "administrador" -> require_administrador(s)
    [] p = "lector" -> require_lector(s)

\* The guard at the top of a page stops the run: st.error + st.stop().
Denied(s, p) ==
  /\ UNCHANGED <<dupes, similar_cache, roles_call, login_vars>>
  /\ Idle(s)
  /\ ~Require(s, p)
  /\ outcome' = Report(s, p, "denied")
  /\ UNCHANGED <<expenses, expense_logs, expense_comments, user_roles,
                 sb_session, all_users_cache, pc, page, exp, call, log_failures>>

\* A run of the detail fragment: the guard passes, an expense of any
\* status is selected and read.
Open(s, p, expense_id) ==
  /\ UNCHANGED <<dupes, similar_cache, roles_call, login_vars>>
  /\ Idle(s)
  /\ p \in {"aprobador", "pagador"}
  /\ Require(s, p)
  /\ expense_id \in 1..Len(expenses)
  /\ pc' = [pc EXCEPT ![s] = "loaded"]
  /\ page' = [page EXCEPT ![s] = p]
  /\ exp' = [exp EXCEPT ![s] = get_expense_by_id_for_approver(expense_id)]
  /\ outcome' = Report(s, p, "open")
  /\ UNCHANGED <<expenses, expense_logs, expense_comments, user_roles,
                 sb_session, all_users_cache, call, log_failures>>

\* First database call of update_expense_status: the row update, which
\* matches no row when no expense has the id.  The log insert stays
\* pending in call[s].
UpdateRow(s, expense_id, actor_id, ns, comment) ==
  /\ LogRoom
  /\ comment # NULL => CommentRoom
  /\ expenses' =
       IF expense_id \in 1..Len(expenses)
       THEN [expenses EXCEPT
               ![expense_id] = update_expense_status_row(@, actor_id, ns)]
       ELSE expenses
  /\ call' = [call EXCEPT ![s] =
       [fn |-> "update_expense_status",
        log |-> create_expense_log_payload(expense_id, actor_id, "update",
                  update_expense_status_details(ns, comment))]]
  /\ pc' = [pc EXCEPT ![s] = "log"]
  /\ outcome' = Report(s, "update_expense_status", "row")
  /\ UNCHANGED <<expense_logs, expense_comments, page, exp>>

\* First database call of mark_expense_as_paid.
PaidRow(s, expense_id, actor_id, payment_doc_folder, comment) ==
  /\ LogRoom
  /\ comment # NULL => CommentRoom
  /\ expenses' =
       IF expense_id \in 1..Len(expenses)
       THEN [expenses EXCEPT
               ![expense_id] = mark_expense_as_paid_row(@, actor_id, payment_doc_folder)]
       ELSE expenses
  /\ call' = [call EXCEPT ![s] =
       [fn |-> "mark_expense_as_paid",
        log |-> create_expense_log_payload(expense_id, actor_id, "update",
                  mark_expense_as_paid_details(payment_doc_folder, comment))]]
  /\ pc' = [pc EXCEPT ![s] = "log"]
  /\ outcome' = Report(s, "mark_expense_as_paid", "row")
  /\ UNCHANGED <<expense_logs, expense_comments, page, exp>>

\* add_expense_comment called from a save handler.
CommentOnly(s, expense_id, actor_id, text) ==
  /\ CommentRoom
  /\ add_expense_comment_valid(expense_id, actor_id, text)
  /\ expense_comments' = Append(expense_comments,
       add_expense_comment_payload(expense_id, actor_id, text))
  /\ outcome' = Report(s, "add_expense_comment", "ok")
  /\ ToIdle(s)
  /\ UNCHANGED <<expenses, expense_logs>>

\* The handler ends without a write; res is what it shows.
NoWrite(s, op, res) ==
  /\ outcome' = Report(s, op, res)
  /\ ToIdle(s)
  /\ UNCHANGED <<expenses, expense_logs, expense_comments>>

\* "Guardar cambios" of aprobador_detalle_fragment.
AprobadorGuardar(s, new_status, comment) ==
  /\ UNCHANGED <<dupes, similar_cache, roles_call, login_vars>>
  /\ pc[s] = "loaded"
  /\ page[s] = "aprobador"
  /\ new_status \in estados_actualizables
  /\ UNCHANGED <<user_roles, sb_session, all_users_cache, log_failures>>
  /\ LET expense_id == exp[s].id
         user_id == current_user(s)
     IN  IF new_status = exp[s].status /\ Strip(comment) # ""
         THEN CommentOnly(s, expense_id, user_id, Strip(comment))
         ELSE IF ~update_expense_status_valid(StripLower(new_status))
         THEN NoWrite(s, "update_expense_status", "Estado invalido")
         ELSE UpdateRow(s, expense_id, user_id, StripLower(new_status),
                        IF comment = "" THEN NULL ELSE comment)

\* "Guardar cambios" of pagador_detalle_fragment.  storage_ok is whether
\* the copy or the upload of the payment document succeeds.
PagadorGuardar(s, new_status, use_supporting_as_payment, pay_file, comment, storage_ok) ==
  /\ UNCHANGED <<dupes, similar_cache, roles_call, login_vars>>
  /\ pc[s] = "loaded"
  /\ page[s] = "pagador"
  /\ new_status \in estados_pagador
  /\ UNCHANGED <<user_roles, sb_session, all_users_cache, log_failures>>
  /\ LET expense_id == exp[s].id
         user_id == current_user(s)
         rec_key == exp[s].supporting_doc_key
         comment_clean == Strip(comment)
         status_changed == new_status # exp[s].status
         existing_payment_date == NULL
         copies == use_supporting_as_payment /\ rec_key # NULL
         uploads == ~copies /\ pay_file # NULL
         payment_doc_key ==
           IF copies THEN rec_key ELSE IF uploads THEN pay_file ELSE NULL
         payment_date_changed ==
           IF status_changed THEN TRUE
           ELSE IF existing_payment_date # NULL THEN FALSE
           ELSE TRUE
     IN  IF new_status = "pagado"
         THEN IF (copies \/ uploads) /\ ~storage_ok
              THEN NoWrite(s, "mark_expense_as_paid", "StorageError")
              ELSE IF status_changed \/ payment_doc_key # NULL \/ payment_date_changed
              THEN IF ~mark_expense_as_paid_valid(expense_id, user_id, payment_doc_key)
                   THEN NoWrite(s, "mark_expense_as_paid", "ValueError")
                   ELSE PaidRow(s, expense_id, user_id, payment_doc_key,
                                IF comment_clean = "" THEN NULL ELSE comment_clean)
              ELSE IF comment_clean # ""
              THEN CommentOnly(s, expense_id, user_id, comment_clean)
              ELSE NoWrite(s, "pagador", "info")
         ELSE IF comment_clean # ""
              THEN CommentOnly(s, expense_id, user_id, comment_clean)
              ELSE NoWrite(s, "pagador", "info")

\* update_expense_status called by session s with any arguments.
update_expense_status(s, expense_id, actor_id, new_status, comment) ==
  /\ UNCHANGED <<dupes, similar_cache, roles_call, login_vars>>
  /\ Idle(s)
  /\ UNCHANGED <<user_roles, sb_session, all_users_cache, log_failures>>
  /\ LET ns == StripLower(new_status)
     IN  IF ~update_expense_status_valid(ns)
         THEN NoWrite(s, "update_expense_status", "Estado invalido")
         ELSE UpdateRow(s, expense_id, actor_id, ns, comment)

\* mark_expense_as_paid called by session s with any arguments.
mark_expense_as_paid(s, expense_id, actor_id, payment_doc_folder, comment) ==
  /\ UNCHANGED <<dupes, similar_cache, roles_call, login_vars>>
  /\ Idle(s)
  /\ UNCHANGED <<user_roles, sb_session, all_users_cache, log_failures>>
  /\ IF ~mark_expense_as_paid_valid(expense_id, actor_id, payment_doc_folder)
     THEN NoWrite(s, "mark_expense_as_paid", "ValueError")
     ELSE PaidRow(s, expense_id, actor_id, payment_doc_folder, comment)

\* create_expense called by session s with any arguments.  insert is what
\* the insert into expenses does: "returned" (the row is stored and comes
\* back with its id), "silent" (stored, no row comes back) or "none"
\* (nothing stored, nothing comes back).  log_ok is whether the insert
\* into expense_logs succeeds.
create_expense(s, requested_by, supplier_id, amount, category, supporting_doc_key, insert, log_ok) ==
  /\ UNCHANGED <<dupes, similar_cache, roles_call, login_vars>>
  /\ Idle(s)
  /\ UNCHANGED <<expense_comments, user_roles, sb_session, all_users_cache, pc, page, exp, call>>
  /\ LET stored == insert \in {"returned", "silent"}
         expense_id == IF insert = "returned" THEN Len(expenses) + 1 ELSE 0
         log_valid == create_expense_log_valid(expense_id, requested_by, "create")
         log_tried == expense_id # 0 /\ log_valid
         log_raised == expense_id # 0 /\ (~log_valid \/ ~log_ok)
     IN  /\ stored => Len(expenses) < MaxExpenses
         /\ log_tried => LogRoom
         /\ (log_tried /\ ~log_ok) => log_failures < MaxLogFailures
         /\ expenses' =
              IF stored
              THEN Append(expenses, create_expense_row(requested_by, supplier_id,
                                      amount, category, supporting_doc_key))
              ELSE expenses
         /\ expense_logs' =
              IF log_tried /\ log_ok
              THEN expense_logs_insert(expense_logs,
                     create_expense_log_payload(expense_id, requested_by, "create",
                       create_expense_details(supplier_id, amount, category,
                                              supporting_doc_key)))
              ELSE expense_logs
         /\ log_failures' =
              IF log_tried /\ ~log_ok THEN log_failures + 1 ELSE log_failures
         /\ outcome' = Report(s, "create_expense",
                               create_expense_result(expense_id, log_raised))

\* add_expense_comment called by session s with any arguments.
add_expense_comment(s, expense_id, actor_id, text) ==
  /\ UNCHANGED <<dupes, similar_cache, roles_call, login_vars>>
  /\ Idle(s)
  /\ UNCHANGED <<user_roles, sb_session, all_users_cache, log_failures>>
  /\ IF ~add_expense_comment_valid(expense_id, actor_id, text)
     THEN NoWrite(s, "add_expense_comment", "ValueError")
     ELSE CommentOnly(s, expense_id, actor_id, text)

\* create_expense_log called by session s with any arguments.
create_expense_log(s, expense_id, actor_id, action, details) ==
  /\ UNCHANGED <<dupes, similar_cache, roles_call, login_vars>>
  /\ Idle(s)
  /\ UNCHANGED <<user_roles, sb_session, all_users_cache, log_failures>>
  /\ IF ~create_expense_log_valid(expense_id, actor_id, action)
     THEN NoWrite(s, "create_expense_log", "ValueError")
     ELSE /\ LogRoom
          /\ expense_logs' = expense_logs_insert(expense_logs,
               create_expense_log_payload(expense_id, actor_id, action, details))
          /\ outcome' = Report(s, "create_expense_log", "ok")
          /\ ToIdle(s)
          /\ UNCHANGED <<expenses, expense_comments>>

\* Second database call of a transition, with arguments create_expense_log
\* rejects: it raises ValueError and inserts nothing.  The row update done
\* before is not undone.
LogInsertRejected(s) ==
  /\ UNCHANGED <<dupes, similar_cache, roles_call, login_vars>>
  /\ pc[s] = "log"
  /\ ~create_expense_log_valid(call[s].log.expense_id, call[s].log.actor_id,
                               call[s].log.action)
  /\ outcome' = Report(s, call[s].fn, "ValueError")
  /\ ToIdle(s)
  /\ UNCHANGED <<expenses, expense_logs, expense_comments, user_roles,
                 sb_session, all_users_cache, log_failures>>

\* Second database call of a transition: create_expense_log inserts.
LogInsert(s) ==
  /\ UNCHANGED <<dupes, similar_cache, roles_call, login_vars>>
  /\ pc[s] = "log"
  /\ create_expense_log_valid(call[s].log.expense_id, call[s].log.actor_id,
                              call[s].log.action)
  /\ expense_logs' = expense_logs_insert(expense_logs, call[s].log)
  /\ outcome' = Report(s, call[s].fn, "ok")
  /\ ToIdle(s)
  /\ UNCHANGED <<expenses, expense_comments, user_roles, sb_session,
                 all_users_cache, log_failures>>

\* The insert raises; the handler's `except Exception` reports it.  The
\* row update done before is not undone.
LogInsertFails(s) ==
  /\ UNCHANGED <<dupes, similar_cache, roles_call, login_vars>>
  /\ pc[s] = "log"
  /\ log_failures < MaxLogFailures
  /\ log_failures' = log_failures + 1
  /\ outcome' = Report(s, call[s].fn, "StorageError")
  /\ ToIdle(s)
  /\ UNCHANGED <<expenses, expense_logs, expense_comments, user_roles,
                 sb_session, all_users_cache>>

Pages == {"solicitante", "aprobador", "pagador", "administrador", "lector"}

\* ------------------------------------------------------ administrador.py
\* get_all_users() behind st.cache_data: the cached roles, else the table.
get_all_users ==
  IF all_users_cache.valid THEN all_users_cache.roles ELSE user_roles

to_add(desired, current) == desired \ current

\* to_remove, were the acting administrator's own role not kept back.
to_remove_unguarded(desired, current, selected_id, my_id) == current \ desired

\* current - desired, minus the acting administrator's own "administrador".
to_remove(desired, current, selected_id, my_id) ==
  IF selected_id = my_id /\ "administrador" \in (current \ desired)
  THEN (current \ desired) \ {"administrador"}
  ELSE current \ desired

\* assign_role upserts one (user, role) row; remove_role deletes it.
assign_role(roles, role) ==
  IF role \in VALID_ROLES THEN roles \cup {role} ELSE roles

remove_role(roles, role) ==
  IF role \in VALID_ROLES THEN roles \ {role} ELSE roles

RECURSIVE assign_all(_, _)
assign_all(roles, rs) ==
  IF rs = {} THEN roles
  ELSE LET r == CHOOSE x \in rs : TRUE
       IN  assign_all(assign_role(roles, r), rs \ {r})

RECURSIVE remove_all(_, _)
remove_all(roles, rs) ==
  IF rs = {} THEN roles
  ELSE LET r == CHOOSE x \in rs : TRUE
       IN  remove_all(remove_role(roles, r), rs \ {r})

\* The body of "Guardar cambios" on the "Editar usuario" tab.
GuardarRoles(s, selected_id, desired) ==
  LET current == get_all_users[selected_id]
      my_id == current_user(s)
      adds == to_add(desired, current)
      removes == to_remove(desired, current, selected_id, my_id)
  IN  /\ user_roles' = [user_roles EXCEPT ![selected_id] =
           remove_all(assign_all(@, adds), removes)]
      /\ outcome' = [s |-> s, res |-> "saved",
                     warning |-> (selected_id = my_id
                                  /\ "administrador" \in (current \ desired))]

\* The administrador page loads: the guard passes and the fragment lists
\* the users.
AdminOpen(s) ==
  /\ UNCHANGED <<dupes, similar_cache, roles_call, login_vars>>
  /\ Idle(s)
  /\ require_administrador(s)
  /\ pc' = [pc EXCEPT ![s] = "loaded"]
  /\ page' = [page EXCEPT ![s] = "administrador"]
  /\ all_users_cache' = [valid |-> TRUE, roles |-> get_all_users]
  /\ outcome' = Report(s, "administrador", "open")
  /\ UNCHANGED <<expenses, expense_logs, expense_comments, user_roles,
                 sb_session, exp, call, log_failures>>

\* admin_editar_fragment (administrador.py): the click reruns the fragment
\* only, and the handler clears the get_all_users cache.
AdminGuardar(s, selected_id, desired) ==
  /\ UNCHANGED <<dupes, similar_cache, roles_call, login_vars>>
  /\ pc[s] = "loaded"
  /\ page[s] = "administrador"
  /\ GuardarRoles(s, selected_id, desired)
  /\ all_users_cache' = NoCache
  /\ UNCHANGED <<expenses, expense_logs, expense_comments, sb_session,
                 pc, page, exp, call, log_failures>>

\* tab_editar (pages/administrador.py): the click reruns the whole script,
\* guard included, and the cache is left as get_all_users filled it.
AdminGuardarPage(s, selected_id, desired) ==
  /\ UNCHANGED <<dupes, similar_cache, roles_call, login_vars>>
  /\ Idle(s)
  /\ require_administrador(s)
  /\ GuardarRoles(s, selected_id, desired)
  /\ all_users_cache' = [valid |-> TRUE, roles |-> get_all_users]
  /\ UNCHANGED <<expenses, expense_logs, expense_comments, sb_session,
                 pc, page, exp, call, log_failures>>

\* The 30 s ttl of the get_all_users cache runs out.
CacheExpire ==
  /\ UNCHANGED <<dupes, similar_cache, roles_call, login_vars>>
  /\ all_users_cache.valid
  /\ all_users_cache' = NoCache
  /\ outcome' = NoOutcome
  /\ UNCHANGED <<expenses, expense_logs, expense_comments, user_roles,
                 sb_session, pc, page, exp, call, log_failures>>

\* The session leaves the page it has loaded.
Leave(s) ==
  /\ UNCHANGED <<dupes, similar_cache, roles_call, login_vars>>
  /\ pc[s] = "loaded"
  /\ ToIdle(s)
  /\ outcome' = Report(s, page[s], "left")
  /\ UNCHANGED <<expenses, expense_logs, expense_comments, user_roles,
                 sb_session, all_users_cache, log_failures>>

\* ------------------------------------------- f_auth.py: session, guards
\* A login completes: _store_session_from_client puts the user in
\* st.session_state["sb_session"].
store_session(s, u) ==
  /\ UNCHANGED <<dupes, similar_cache, roles_call, login_vars>>
  /\ Idle(s)
  /\ sb_session[s] = NULL
  /\ sb_session' = [sb_session EXCEPT ![s] = u]
  /\ outcome' = Report(s, "login", "ok")
  /\ UNCHANGED <<expenses, expense_logs, expense_comments, user_roles,
                 all_users_cache, pc, page, exp, call, log_failures>>

\* sign_out pops sb_session.
sign_out(s) ==
  /\ UNCHANGED <<dupes, similar_cache, roles_call, login_vars>>
  /\ Idle(s)
  /\ sb_session[s] # NULL
  /\ sb_session' = [sb_session EXCEPT ![s] = NULL]
  /\ outcome' = Report(s, "sign_out", "ok")
  /\ UNCHANGED <<expenses, expense_logs, expense_comments, user_roles,
                 all_users_cache, pc, page, exp, call, log_failures>>

\* A page script runs past the guard at its top and renders.
PageRun(s, p) ==
  /\ UNCHANGED <<dupes, similar_cache, roles_call, login_vars>>
  /\ Idle(s)
  /\ Require(s, p)
  /\ pc' = [pc EXCEPT ![s] = "loaded"]
  /\ page' = [page EXCEPT ![s] = p]
  /\ outcome' = Report(s, p, "open")
  /\ UNCHANGED <<expenses, expense_logs, expense_comments, user_roles,
                 sb_session, all_users_cache, exp, call, log_failures>>

\* ----------------------------------------------- f_cud.py: set_user_roles
\* `roles_clean = [r for r in roles if r in VALID_ROLES]`.
roles_clean(roles) == roles \cap VALID_ROLES

\* set_user_roles up to its first request: the check of user_id, then the
\* delete of every role of the user.  With roles_clean empty the call is
\* over; else the insert is left to do.
set_user_roles(s, user_id, roles) ==
  /\ UNCHANGED <<dupes, similar_cache, login_vars>>
  /\ Idle(s)
  /\ UNCHANGED <<expenses, expense_logs, expense_comments, sb_session,
                 all_users_cache, page, exp, call, log_failures>>
  /\ IF user_id = NULL
     THEN /\ outcome' = Report(s, "set_user_roles", "ValueError")
          /\ UNCHANGED <<user_roles, roles_call, pc>>
     ELSE /\ user_roles' = [user_roles EXCEPT ![user_id] = {}]
          /\ roles_call' = [roles_call EXCEPT ![s] =
               [user_id |-> user_id, old |-> user_roles[user_id],
                new |-> roles_clean(roles)]]
          /\ IF roles_clean(roles) = {}
             THEN /\ pc' = pc
                  /\ outcome' = Report(s, "set_user_roles", "ok")
             ELSE /\ pc' = [pc EXCEPT ![s] = "roles"]
                  /\ outcome' = Report(s, "set_user_roles", "deleted")

\* Second request of set_user_roles: the insert of the new rows.
RolesInsert(s) ==
  /\ UNCHANGED <<dupes, similar_cache, login_vars>>
  /\ pc[s] = "roles"
  /\ user_roles' = [user_roles EXCEPT ![roles_call[s].user_id] = roles_call[s].new]
  /\ pc' = [pc EXCEPT ![s] = "idle"]
  /\ outcome' = Report(s, "set_user_roles", "ok")
  /\ UNCHANGED <<expenses, expense_logs, expense_comments, sb_session,
                 all_users_cache, page, exp, call, log_failures, roles_call>>

\* The insert raises: the roles deleted before stay deleted.
RolesInsertFails(s) ==
  /\ UNCHANGED <<dupes, similar_cache, login_vars>>
  /\ pc[s] = "roles"
  /\ pc' = [pc EXCEPT ![s] = "idle"]
  /\ outcome' = Report(s, "set_user_roles", "StorageError")
  /\ UNCHANGED <<expenses, expense_logs, expense_comments, user_roles, sb_session,
                 all_users_cache, page, exp, call, log_failures, roles_call>>

\* ------------------------------------- solicitante.py: duplicate hint
\* solicitud_nueva_fragment renders with a supplier chosen and a positive
\* amount typed: recent_similar_expenses answers from st.cache_data when
\* it holds the arguments, else queries the table and caches the answer.
SimilarQuery(s, supplier_id, amount) ==
  /\ Idle(s)
  /\ require_solicitante(s)
  /\ supplier_id # NULL /\ amount > 0
  /\ LET a == <<supplier_id, amount>>
         ids == IF similar_cache[a].valid THEN similar_cache[a].ids
                ELSE recent_similar_expenses(expenses, supplier_id, amount, SimilarDays)
     IN  /\ dupes' = [supplier_id |-> supplier_id, amount |-> amount, ids |-> ids]
         /\ similar_cache' = [similar_cache EXCEPT ![a] = [valid |-> TRUE, ids |-> ids]]
  /\ outcome' = Report(s, "solicitante", "similar")
  /\ UNCHANGED <<expenses, expense_logs, expense_comments, user_roles,
                 sb_session, all_users_cache, pc, page, exp, call, log_failures,
                 roles_call, login_vars>>

\* The 20 s ttl of one cached answer runs out.
SimilarCacheExpire(a) ==
  /\ similar_cache[a].valid
  /\ similar_cache' = [similar_cache EXCEPT ![a] = [valid |-> FALSE, ids |-> <<>>]]
  /\ outcome' = NoOutcome
  /\ UNCHANGED <<expenses, expense_logs, expense_comments, user_roles,
                 sb_session, all_users_cache, pc, page, exp, call, log_failures,
                 dupes, roles_call, login_vars>>

\* ---------------------------------------------------------- specifications
\* Lifecycle of an expense: creation from a well-formed form, comments and
\* transitions by two sessions, every store call succeeding.
Next ==
  \/ \E s \in Sessions, comentario_inicial \in Texts :
       SolicitudNueva(s, "sup1", 150000, "Servicios", "q",
                      comentario_inicial, TRUE, TRUE)
  \/ \E s \in Sessions, sel_id \in 1..MaxExpenses, txt \in Texts :
       SolicitanteComentar(s, sel_id, txt)
  \/ \E s \in Sessions, p \in Pages : Denied(s, p)
  \/ \E s \in Sessions, p \in Pages, expense_id \in 1..MaxExpenses :
       Open(s, p, expense_id)
  \/ \E s \in Sessions, new_status \in estados_actualizables, comment \in Texts :
       AprobadorGuardar(s, new_status, comment)
  \/ \E s \in Sessions, new_status \in estados_pagador,
        use_supporting_as_payment \in BOOLEAN, pay_file \in {NULL, "p"},
        comment \in Texts, storage_ok \in BOOLEAN :
       PagadorGuardar(s, new_status, use_supporting_as_payment, pay_file,
                      comment, storage_ok)
  \/ \E s \in Sessions : LogInsert(s)

Spec == Init /\ [][Next]_vars

\* Creation alone, over every amount input and with the log insert of
\* create_expense allowed to fail.
NextCreate ==
  \/ \E s \in Sessions, supplier_id \in Suppliers \cup {NULL},
        amount \in AmountInputs, categoria \in Categories,
        file \in {NULL, "q"}, comentario_inicial \in Texts,
        upload_ok \in BOOLEAN, log_ok \in BOOLEAN :
       SolicitudNueva(s, supplier_id, amount, categoria, file,
                      comentario_inicial, upload_ok, log_ok)
  \/ \E s \in Sessions, sel_id \in 1..MaxExpenses, txt \in Texts :
       SolicitanteComentar(s, sel_id, txt)
  \/ \E s \in Sessions, p \in Pages : Denied(s, p)

SpecCreate == Init /\ [][NextCreate]_vars

\* Role editing on the administrador page by two sessions.
InitRoles ==
  /\ expenses = <<>>
  /\ expense_logs = <<>>
  /\ expense_comments = <<>>
  /\ user_roles \in [Users -> SUBSET EditedRoles]
  /\ sb_session = [s \in Sessions |-> IF s = "s1" THEN "u1" ELSE "u2"]
  /\ all_users_cache = NoCache
  /\ pc = [s \in Sessions |-> "idle"]
  /\ page = [s \in Sessions |-> NULL]
  /\ exp = [s \in Sessions |-> NoExp]
  /\ call = [s \in Sessions |-> NoCall]
  /\ outcome = NoOutcome
  /\ log_failures = 0
  /\ dupes = NoDupes
  /\ similar_cache = NoSimilarCache
  /\ roles_call = NoRolesCall
  /\ NoLogin

NextRoles ==
  \/ \E s \in Sessions : Denied(s, "administrador")
  \/ \E s \in Sessions : AdminOpen(s)
  \/ \E s \in Sessions, selected_id \in Users, desired \in SUBSET EditedRoles :
       AdminGuardar(s, selected_id, desired)
  \/ \E s \in Sessions, selected_id \in Users, desired \in SUBSET EditedRoles :
       AdminGuardarPage(s, selected_id, desired)
  \/ CacheExpire
  \/ \E s \in Sessions : Leave(s)

SpecRoles == InitRoles /\ [][NextRoles]_vars

\* The administrador page edited by two signed-in users, at least one of
\* whom administers at the start.
InitAdmins ==
  /\ InitRoles
  /\ \E u \in Users : "administrador" \in user_roles[u]

SpecAdmins == InitAdmins /\ [][NextRoles]_vars

\* A user's roles edited by an administrator while that user has the
\* aprobador page open: u1 administers, u2 requests and approves.  The
\* administrator edits u2's roles; forms are sent without comments.
InitDemote ==
  /\ expenses = <<>>
  /\ expense_logs = <<>>
  /\ expense_comments = <<>>
  /\ user_roles = [u \in Users |-> IF u = "u1" THEN {"administrador"}
                                   ELSE {"solicitante", "aprobador"}]
  /\ sb_session = [s \in Sessions |-> IF s = "s1" THEN "u1" ELSE "u2"]
  /\ all_users_cache = NoCache
  /\ pc = [s \in Sessions |-> "idle"]
  /\ page = [s \in Sessions |-> NULL]
  /\ exp = [s \in Sessions |-> NoExp]
  /\ call = [s \in Sessions |-> NoCall]
  /\ outcome = NoOutcome
  /\ log_failures = 0
  /\ dupes = NoDupes
  /\ similar_cache = NoSimilarCache
  /\ roles_call = NoRolesCall
  /\ NoLogin

NextDemote ==
  \/ \E s \in Sessions, comentario_inicial \in {""} :
       SolicitudNueva(s, "sup1", 150000, "Servicios", "q",
                      comentario_inicial, TRUE, TRUE)
  \/ \E s \in Sessions, p \in Pages : Denied(s, p)
  \/ \E s \in Sessions, p \in Pages, expense_id \in 1..MaxExpenses :
       Open(s, p, expense_id)
  \/ \E s \in Sessions, new_status \in estados_actualizables, comment \in {""} :
       AprobadorGuardar(s, new_status, comment)
  \/ \E s \in Sessions : LogInsert(s)
  \/ \E s \in Sessions : AdminOpen(s)
  \/ \E s \in Sessions, selected_id \in {"u2"}, desired \in SUBSET EditedRoles :
       AdminGuardar(s, selected_id, desired)
  \/ \E s \in Sessions : Leave(s)

SpecDemote == InitDemote /\ [][NextDemote]_vars

\* The duplicate hint over stored tables: n expenses of supplier sup1 and
\* amount 100.00 created on the last n days, then any of four more: the
\* same 29 and 31 days ago, one of 100.01, one of supplier sup2.
SimilarRow(supplier_id, amount, age) ==
  [create_expense_row("u1", supplier_id, amount, "Servicios", "q")
     EXCEPT !.created_at = Today - age]

SimilarExtras ==
  <<SimilarRow("sup1", 100000, 29), SimilarRow("sup1", 100000, 31),
    SimilarRow("sup1", 100010, 5), SimilarRow("sup2", 100000, 3)>>

SimilarTable(n, extras) ==
  [k \in 1..n |-> SimilarRow("sup1", 100000, k - 1)]
    \o SelectSeq(SimilarExtras, LAMBDA r : r \in extras)

SimilarSizes == {0, 1, MaxSimilarRows - 1, MaxSimilarRows}

SimilarTables ==
  {SimilarTable(n, extras) :
     n \in SimilarSizes,
     extras \in SUBSET {SimilarExtras[i] : i \in 1..Len(SimilarExtras)}}

InitSimilar ==
  /\ expenses \in SimilarTables
  /\ expense_logs = <<>>
  /\ expense_comments = <<>>
  /\ user_roles \in RoleConfigs
  /\ sb_session = [s \in Sessions |-> IF s = "s1" THEN "u1" ELSE "u2"]
  /\ all_users_cache = NoCache
  /\ pc = [s \in Sessions |-> "idle"]
  /\ page = [s \in Sessions |-> NULL]
  /\ exp = [s \in Sessions |-> NoExp]
  /\ call = [s \in Sessions |-> NoCall]
  /\ outcome = NoOutcome
  /\ log_failures = 0
  /\ dupes = NoDupes
  /\ similar_cache = NoSimilarCache
  /\ roles_call = NoRolesCall
  /\ NoLogin

NextSimilar ==
  \/ \E s \in Sessions, supplier_id \in SimilarSuppliers, amount \in SimilarAmounts :
       SimilarQuery(s, supplier_id, amount)
  \/ \E a \in SimilarArgs : SimilarCacheExpire(a)
  \/ \E s \in Sessions :
       SolicitudNueva(s, "sup1", 100000, "Servicios", "q", "", TRUE, TRUE)
  \/ \E s \in Sessions, p \in Pages : Denied(s, p)

SpecSimilar == InitSimilar /\ [][NextSimilar]_vars

\* The data layer called directly: any session calls update_expense_status
\* and mark_expense_as_paid with any arguments, and a log insert may raise.
DocFolders == {NULL, "", "q"}
ApiComments == {NULL, "ok"}
ApiCallers == {"s1"}

NextApi ==
  \/ \E s \in ApiCallers, comentario_inicial \in Texts :
       SolicitudNueva(s, "sup1", 150000, "Servicios", "q", comentario_inicial, TRUE, TRUE)
  \/ \E s \in ApiCallers, expense_id \in 1..Len(expenses),
        new_status \in StatusInputs, comment \in ApiComments :
       update_expense_status(s, expense_id, current_user(s), new_status, comment)
  \/ \E s \in ApiCallers, expense_id \in 1..Len(expenses),
        payment_doc_folder \in DocFolders, comment \in ApiComments :
       mark_expense_as_paid(s, expense_id, current_user(s), payment_doc_folder, comment)
  \/ \E s \in ApiCallers : LogInsert(s)
  \/ \E s \in ApiCallers : LogInsertFails(s)

SpecApi == Init /\ [][NextApi]_vars

\* The data layer called with arguments of every kind: an empty expense
\* id (0), the id of no expense, an empty actor id, a blank text.
CallIds == 0..(MaxExpenses + 1)
CallActors == {NULL, "u1"}
CallStatuses == {"aprobado", "pagado", "cancelado"}
CallTexts == {NULL, " ", " ok "}
CallActions == {NULL, "update"}

NextCalls ==
  \/ \E s \in ApiCallers :
       SolicitudNueva(s, "sup1", 150000, "Servicios", "q", "", TRUE, TRUE)
  \/ \E s \in ApiCallers, expense_id \in CallIds, actor_id \in CallActors,
        new_status \in CallStatuses :
       update_expense_status(s, expense_id, actor_id, new_status, NULL)
  \/ \E s \in ApiCallers, expense_id \in CallIds, actor_id \in CallActors,
        payment_doc_folder \in DocFolders :
       mark_expense_as_paid(s, expense_id, actor_id, payment_doc_folder, NULL)
  \/ \E s \in ApiCallers, expense_id \in CallIds, actor_id \in CallActors,
        text \in CallTexts :
       add_expense_comment(s, expense_id, actor_id, text)
  \/ \E s \in ApiCallers, expense_id \in CallIds, actor_id \in CallActors,
        action \in CallActions :
       create_expense_log(s, expense_id, actor_id, action, [kind |-> "note"])
  \/ \E s \in ApiCallers : LogInsert(s)
  \/ \E s \in ApiCallers : LogInsertRejected(s)
  \/ \E s \in ApiCallers : LogInsertFails(s)

SpecCalls == Init /\ [][NextCalls]_vars

\* create_expense called with arguments of every kind, its two inserts
\* succeeding or not.
InsertOutcomes == {"returned", "silent", "none"}

NextCreateExpense ==
  \E s \in Sessions, requested_by \in CallActors, amount \in AmountInputs,
     supporting_doc_key \in {NULL, "q"}, insert \in InsertOutcomes,
     log_ok \in BOOLEAN :
    create_expense(s, requested_by, "sup1", amount, "Servicios",
                   supporting_doc_key, insert, log_ok)

SpecCreateExpense == Init /\ [][NextCreateExpense]_vars

\* set_user_roles called by one session while the other runs the pages.
RoleInputs == SUBSET {"administrador", "lector", "root"}

NextSetRoles ==
  \/ \E s \in ApiCallers, user_id \in Users \cup {NULL}, roles \in RoleInputs :
       set_user_roles(s, user_id, roles)
  \/ \E s \in ApiCallers : RolesInsert(s)
  \/ \E s \in ApiCallers : RolesInsertFails(s)
  \/ \E s \in Sessions \ ApiCallers, p \in Pages : PageRun(s, p)
  \/ \E s \in Sessions \ ApiCallers, p \in Pages : Denied(s, p)
  \/ \E s \in Sessions \ ApiCallers : Leave(s)

SpecSetRoles == Init /\ [][NextSetRoles]_vars

\* The guards: nobody logged in at first, any user_roles table with at
\* most MaxRoles roles per user; sessions log in and out and run the pages.
GuardRoleSets == {r \in SUBSET VALID_ROLES : Cardinality(r) <= MaxRoles}

InitGuards ==
  /\ expenses = <<>>
  /\ expense_logs = <<>>
  /\ expense_comments = <<>>
  /\ user_roles \in [Users -> GuardRoleSets]
  /\ sb_session = [s \in Sessions |-> NULL]
  /\ all_users_cache = NoCache
  /\ pc = [s \in Sessions |-> "idle"]
  /\ page = [s \in Sessions |-> NULL]
  /\ exp = [s \in Sessions |-> NoExp]
  /\ call = [s \in Sessions |-> NoCall]
  /\ outcome = NoOutcome
  /\ log_failures = 0
  /\ dupes = NoDupes
  /\ similar_cache = NoSimilarCache
  /\ roles_call = NoRolesCall
  /\ NoLogin

NextGuards ==
  \/ \E s \in Sessions, u \in Users : store_session(s, u)
  \/ \E s \in Sessions : sign_out(s)
  \/ \E s \in Sessions, p \in Pages : PageRun(s, p)
  \/ \E s \in Sessions, p \in Pages : Denied(s, p)
  \/ \E s \in Sessions : Leave(s)

SpecGuards == InitGuards /\ [][NextGuards]_vars

\* ---------------------------------------------------------------- app.py
\* The login page.  What is typed into the "Email" box, without LIKE
\* wildcards, and into the "Codigo" box; one-time codes are sent at most
\* MaxSentOtps times.
MaxSentOtps == 2
EmailInputs == {"", " ", "a@x", " A@x ", "b@x"}
CodeInputs == {"", " ", "123456"}
VerifyOutcomes == {"session", "none", "raises"}

EmailStrip(email) ==
  CASE email = " " -> ""
    [] email = " A@x " -> "A@x"
    [] OTHER -> email

EmailLower(email) ==
  IF email = "A@x" THEN "a@x" ELSE email

\* The users table: the address of each user.
users_email == [u \in Users |-> IF u = "u1" THEN "a@x" ELSE "b@x"]

\* is_registered_email: the address is on the allowlist, or (compared
\* without case) it is the address of a user who holds a role.
is_registered_email(email) ==
  \/ EmailLower(EmailStrip(email)) \in app_users
  \/ \E u \in Users :
       /\ EmailLower(users_email[u]) = EmailLower(EmailStrip(email))
       /\ user_roles[u] # {}

\* add_app_user and delete_app_user keep the allowlist in lower case.
add_app_user(s, email) ==
  LET email_norm == EmailLower(EmailStrip(email))
  IN  /\ require_administrador(s)
      /\ IF email_norm = ""
         THEN /\ outcome' = Report(s, "add_app_user", "Correo invalido")
              /\ UNCHANGED app_users
         ELSE /\ app_users' = app_users \cup {email_norm}
              /\ outcome' = Report(s, "add_app_user", "allowed")
      /\ UNCHANGED <<expenses, expense_logs, expense_comments, user_roles,
                     sb_session, all_users_cache, pc, page, exp, call,
                     log_failures, dupes, similar_cache, roles_call,
                     otp_sent, otp_email, sent_otps>>

delete_app_user(s, email) ==
  LET email_norm == EmailLower(EmailStrip(email))
  IN  /\ require_administrador(s)
      /\ app_users' = app_users \ {email_norm}
      /\ outcome' = Report(s, "delete_app_user", "disallowed")
      /\ UNCHANGED <<expenses, expense_logs, expense_comments, user_roles,
                     sb_session, all_users_cache, pc, page, exp, call,
                     log_failures, dupes, similar_cache, roles_call,
                     otp_sent, otp_email, sent_otps>>

\* The user the auth service signs in for an address.
user_of_email(email) ==
  CHOOSE u \in Users : EmailLower(users_email[u]) = EmailLower(email)

\* email_form: the tests a submitted address passes before a code is sent.
email_form_may_send(email_clean) ==
  /\ email_clean # ""
  /\ is_registered_email(email_clean)

\* otp_form's test before a resend, were the registration not looked up
\* again.
otp_form_may_resend_unchecked(email) ==
  TRUE

\* otp_form: the registration is looked up again before every resend.
otp_form_may_resend(email) ==
  is_registered_email(email)

\* "Enviar codigo" on email_form; send_login_otp answers or raises.
EmailFormSubmit(s, email, send_ok) ==
  LET email_clean == EmailStrip(email)
  IN  /\ current_user(s) = NULL
      /\ ~otp_sent[s]
      /\ Len(sent_otps) < MaxSentOtps
      /\ IF email_clean = ""
         THEN /\ outcome' = Report(s, "email_form", "El email es obligatorio")
              /\ UNCHANGED <<otp_sent, otp_email, sent_otps>>
         ELSE IF ~email_form_may_send(email_clean)
         THEN /\ outcome' = Report(s, "email_form", "no registrado")
              /\ UNCHANGED <<otp_sent, otp_email, sent_otps>>
         ELSE IF send_ok
         THEN /\ sent_otps' = Append(sent_otps, email_clean)
              /\ otp_sent' = [otp_sent EXCEPT ![s] = TRUE]
              /\ otp_email' = [otp_email EXCEPT ![s] = email_clean]
              /\ outcome' = Report(s, "email_form", "Codigo enviado")
         ELSE /\ outcome' = Report(s, "email_form", "Error enviando OTP")
              /\ UNCHANGED <<otp_sent, otp_email, sent_otps>>
      /\ UNCHANGED <<expenses, expense_logs, expense_comments, user_roles,
                     sb_session, all_users_cache, pc, page, exp, call,
                     log_failures, dupes, similar_cache, roles_call,
                     app_users>>

\* "Verificar codigo" on otp_form; verify_otp stores a session, returns
\* none, or raises.
OtpFormVerify(s, code, verified) ==
  /\ current_user(s) = NULL
  /\ otp_sent[s]
  /\ IF Strip(code) = ""
     THEN /\ outcome' = Report(s, "otp_form", "Ingresa el codigo")
          /\ UNCHANGED <<sb_session, otp_sent, otp_email>>
     ELSE IF verified = "session"
     THEN /\ sb_session' = [sb_session EXCEPT ![s] = user_of_email(otp_email[s])]
          /\ otp_sent' = [otp_sent EXCEPT ![s] = FALSE]
          /\ otp_email' = [otp_email EXCEPT ![s] = ""]
          /\ outcome' = Report(s, "otp_form", "Autenticado")
     ELSE IF verified = "none"
     THEN /\ outcome' = Report(s, "otp_form", "No se pudo verificar")
          /\ UNCHANGED <<sb_session, otp_sent, otp_email>>
     ELSE /\ outcome' = Report(s, "otp_form", "Error verificando OTP")
          /\ UNCHANGED <<sb_session, otp_sent, otp_email>>
  /\ UNCHANGED <<expenses, expense_logs, expense_comments, user_roles,
                 all_users_cache, pc, page, exp, call, log_failures, dupes,
                 similar_cache, roles_call, app_users, sent_otps>>

\* "Reenviar codigo" on otp_form.
OtpFormResend(s, send_ok) ==
  /\ current_user(s) = NULL
  /\ otp_sent[s]
  /\ Len(sent_otps) < MaxSentOtps
  /\ IF ~otp_form_may_resend(otp_email[s])
     THEN /\ outcome' = Report(s, "otp_form", "ya no registrado")
          /\ UNCHANGED sent_otps
     ELSE IF send_ok
     THEN /\ sent_otps' = Append(sent_otps, otp_email[s])
          /\ outcome' = Report(s, "otp_form", "reenviado")
     ELSE /\ outcome' = Report(s, "otp_form", "No se pudo reenviar")
          /\ UNCHANGED sent_otps
  /\ UNCHANGED <<expenses, expense_logs, expense_comments, user_roles,
                 sb_session, all_users_cache, pc, page, exp, call,
                 log_failures, dupes, similar_cache, roles_call,
                 otp_sent, otp_email, app_users>>

\* "Cambiar correo" on otp_form.
OtpFormChangeEmail(s) ==
  /\ current_user(s) = NULL
  /\ otp_sent[s]
  /\ otp_sent' = [otp_sent EXCEPT ![s] = FALSE]
  /\ otp_email' = [otp_email EXCEPT ![s] = ""]
  /\ outcome' = Report(s, "otp_form", "Cambiar correo")
  /\ UNCHANGED <<expenses, expense_logs, expense_comments, user_roles,
                 sb_session, all_users_cache, pc, page, exp, call,
                 log_failures, dupes, similar_cache, roles_call,
                 app_users, sent_otps>>

\* The page is opened through a magic link carrying the tokens of user u.
MagicLink(s, u) ==
  /\ sb_session' = [sb_session EXCEPT ![s] = u]
  /\ otp_sent' = [otp_sent EXCEPT ![s] = FALSE]
  /\ otp_email' = [otp_email EXCEPT ![s] = ""]
  /\ outcome' = Report(s, "magic_link", "Sesion iniciada por enlace")
  /\ UNCHANGED <<expenses, expense_logs, expense_comments, user_roles,
                 all_users_cache, pc, page, exp, call, log_failures, dupes,
                 similar_cache, roles_call, app_users, sent_otps>>

\* Nobody is signed in; u1 administers and u2 may hold a role or none;
\* the allowlist holds any of the users' addresses.
InitLogin ==
  /\ expenses = <<>>
  /\ expense_logs = <<>>
  /\ expense_comments = <<>>
  /\ user_roles \in {f \in [Users -> {{}, {"administrador"}, {"lector"}}] :
                       f["u1"] = {"administrador"}}
  /\ sb_session = [s \in Sessions |-> NULL]
  /\ all_users_cache = NoCache
  /\ pc = [s \in Sessions |-> "idle"]
  /\ page = [s \in Sessions |-> NULL]
  /\ exp = [s \in Sessions |-> NoExp]
  /\ call = [s \in Sessions |-> NoCall]
  /\ outcome = NoOutcome
  /\ log_failures = 0
  /\ dupes = NoDupes
  /\ similar_cache = NoSimilarCache
  /\ roles_call = NoRolesCall
  /\ otp_sent = [s \in Sessions |-> FALSE]
  /\ otp_email = [s \in Sessions |-> ""]
  /\ app_users \in SUBSET Emails
  /\ sent_otps = <<>>

NextLogin ==
  \/ \E s \in Sessions, email \in EmailInputs, send_ok \in BOOLEAN :
       EmailFormSubmit(s, email, send_ok)
  \/ \E s \in Sessions, code \in CodeInputs, verified \in VerifyOutcomes :
       OtpFormVerify(s, code, verified)
  \/ \E s \in Sessions, send_ok \in BOOLEAN : OtpFormResend(s, send_ok)
  \/ \E s \in Sessions : OtpFormChangeEmail(s)
  \/ \E s \in Sessions, u \in Users : MagicLink(s, u)
  \/ \E s \in Sessions : sign_out(s)
  \/ \E s \in Sessions, email \in EmailInputs : add_app_user(s, email)
  \/ \E s \in Sessions, email \in EmailInputs : delete_app_user(s, email)

SpecLogin == InitLogin /\ [][NextLogin]_vars

\* ------------------------------------------------------------ properties
Rows == 1..Len(expenses)

\* The session whose step produced the state, as the step reported it.
ActedBy(s) == outcome'.s = s

\* C1: in every reachable state, every expense has a payment_doc_key if
\* and only if its status is pagado.
C1_DocKeyIffPagado ==
  \A i \in Rows :
    (expenses[i].payment_doc_key # NULL) <=> (expenses[i].status = "pagado")

\* C2: of two sessions that both read an expense as aprobado and both save
\* it as pagado, at most one gets its row update through: no state has
\* both of them past the update of the same expense.
C2_OneWriterWins ==
  \A s, t \in Sessions :
    (/\ s # t
     /\ pc[s] = "log" /\ call[s].fn = "mark_expense_as_paid"
     /\ pc[t] = "log" /\ call[t].fn = "mark_expense_as_paid"
     /\ exp[s].status = "aprobado" /\ exp[t].status = "aprobado")
    => exp[s].id # exp[t].id

\* C3: the log entry a status transition appends (the one its row update
\* leaves pending for create_expense_log) contains the status the expense
\* had before the transition as well as the new one.
C3_LogHasPreviousStatus ==
  [][\A s \in Sessions :
       (pc[s] = "loaded" /\ pc'[s] = "log")
       => LET details == call'[s].log.details
              previous == expenses[exp[s].id].status
          IN  /\ \E k \in DOMAIN details : details[k] = previous
              /\ \E k \in DOMAIN details :
                   details[k] = expenses'[exp[s].id].status]_vars

\* The user of session s holds the role solicitante and no other.
SolicitanteOnly(s) ==
  current_user(s) # NULL /\ user_roles[current_user(s)] = {"solicitante"}

\* C4: a session whose user holds the role solicitante and no other never
\* changes the status of an expense: its steps leave every stored status
\* as it was, issue no transition log, and never take it past the guard
\* of a page that can transition.
C4_SolicitanteNeverTransitions ==
  [][\A s \in Sessions :
       (SolicitanteOnly(s) /\ ActedBy(s))
       => /\ \A i \in Rows : expenses'[i].status = expenses[i].status
          /\ pc'[s] # "log"
          /\ pc[s] = "idle" => pc'[s] = "idle"]_vars

\* C5: every step that turns the status of an expense into pagado starts
\* from a state in which that status is aprobado.
C5_PagadoOnlyFromAprobado ==
  [][\A i \in Rows :
       (expenses[i].status # "pagado" /\ expenses'[i].status = "pagado")
       => expenses[i].status = "aprobado"]_vars

\* The status chosen in the form is the one the expense was read with and
\* still has.
SameStatus(s, new_status) ==
  /\ exp[s].id \in Rows
  /\ new_status = exp[s].status
  /\ new_status = expenses[exp[s].id].status

\* C6: a save whose target status is the status the expense has, with an
\* empty comment and no payment document, writes nothing in either
\* handler: the rows and the log stay as they are and no log insert is
\* left to do.
C6_SameStatusIsNoOp ==
  [][\A s \in Sessions, new_status \in ESTADOS :
       (/\ SameStatus(s, new_status)
        /\ \/ AprobadorGuardar(s, new_status, "")
           \/ \E storage_ok \in BOOLEAN :
                PagadorGuardar(s, new_status, FALSE, NULL, "", storage_ok))
       => /\ UNCHANGED <<expenses, expense_logs, expense_comments>>
          /\ pc'[s] # "log"]_vars

\* C7: saving an expense as pagado with no payment document uploaded and
\* the supporting document not reused is rejected by
\* mark_expense_as_paid, and the rows and the log stay as they are.
C7_PagadoNeedsDocument ==
  [][\A s \in Sessions, comment \in Texts, storage_ok \in BOOLEAN :
       PagadorGuardar(s, "pagado", FALSE, NULL, comment, storage_ok)
       => /\ outcome'.res = "ValueError"
          /\ pc'[s] = "idle"
          /\ UNCHANGED <<expenses, expense_logs, expense_comments>>]_vars

\* A save as pagado without a document was rejected while an expense
\* stood unpaid.
C7_Witness ==
  /\ outcome.res = "ValueError"
  /\ \E i \in Rows :
       /\ expenses[i].status = "aprobado"
       /\ expenses[i].payment_doc_key = NULL
       /\ expenses[i].paid_by = NULL

\* C8: when an administrator saves a user's roles, their own
\* administrador role stays (the save answers with a warning and no
\* error), every other role ticked is added and every other role unticked
\* is removed, whoever the edited user is.
C8_OwnAdministradorKept ==
  [][\A s \in Sessions, selected_id \in Users, desired \in SUBSET EditedRoles :
       (\/ AdminGuardar(s, selected_id, desired)
        \/ AdminGuardarPage(s, selected_id, desired))
       => LET my_id == current_user(s)
              current == get_all_users[selected_id]
              own == selected_id = my_id
          IN  /\ (own /\ "administrador" \in user_roles[my_id])
                 => "administrador" \in user_roles'[my_id]
              /\ outcome'.res = "saved"
              /\ outcome'.warning
                 <=> (own /\ "administrador" \in current \ desired)
              /\ \A r \in EditedRoles :
                   (~own \/ r # "administrador")
                   => /\ r \in desired \ current => r \in user_roles'[selected_id]
                      /\ r \in current \ desired => r \notin user_roles'[selected_id]
              /\ \A u \in Users \ {selected_id} : user_roles'[u] = user_roles[u]]_vars

\* An administrator unticked their own administrador role, was warned,
\* and still holds it.
C8_Witness ==
  /\ outcome.res = "saved"
  /\ outcome.warning
  /\ "administrador" \in user_roles[sb_session[outcome.s]]

C10_AmountPositive ==
  [][/\ \A s \in Sessions, supplier_id \in Suppliers \cup {NULL},
          amount \in AmountInputs, categoria \in Categories,
          file \in {NULL, "q"}, comentario_inicial \in Texts,
          upload_ok \in BOOLEAN, log_ok \in BOOLEAN :
          (/\ amount <= 0
           /\ SolicitudNueva(s, supplier_id, amount, categoria, file,
                             comentario_inicial, upload_ok, log_ok))
          => /\ outcome'.res = "invalid"
             /\ UNCHANGED <<expenses, expense_logs, expense_comments>>
     /\ \A i \in 1..Len(expenses') : expenses'[i].amount > 0]_vars

\* A step of "Enviar solicitud" that got through create_expense: one row
\* more, reported as saved.
Created(s) ==
  /\ ActedBy(s)
  /\ outcome'.res = "ok"
  /\ Len(expenses') = Len(expenses) + 1

\* The last log entry is the "create" entry of expense id by user u.
CreateLogged(logs, id, u) ==
  /\ Len(logs) >= 1
  /\ logs[Len(logs)].expense_id = id
  /\ logs[Len(logs)].actor_id = u
  /\ logs[Len(logs)].action = "create"
  /\ logs[Len(logs)].details.kind = "create"

\* C11 as claimed: every create_expense that succeeds leaves a new row with
\* status solicitado under the next id and appends exactly one "create"
\* log entry for it, by the requester.
C11_CreateLogsOnce ==
  [][\A s \in Sessions :
       Created(s)
       => LET id == Len(expenses')
          IN  /\ expenses'[id].status = "solicitado"
              /\ expenses'[id].requested_by = current_user(s)
              /\ Len(expense_logs') = Len(expense_logs) + 1
              /\ CreateLogged(expense_logs', id, current_user(s))]_vars

\* C11 as the code has it: every create_expense that succeeds leaves a new
\* row with status solicitado, requested by the acting user, under the
\* next id; it appends exactly one "create" log entry for it by the
\* requester when the log insert succeeds, and leaves the log as it was
\* when that insert fails.
C11_CreateLogsBestEffort ==
  [][\A s \in Sessions :
       Created(s)
       => LET id == Len(expenses')
          IN  /\ expenses'[id].status = "solicitado"
              /\ expenses'[id].requested_by = current_user(s)
              /\ expenses'[id].approved_by = NULL
              /\ expenses'[id].payment_doc_key = NULL
              /\ \A i \in Rows : expenses'[i] = expenses[i]
              /\ \/ /\ log_failures' = log_failures
                    /\ Len(expense_logs') = Len(expense_logs) + 1
                    /\ CreateLogged(expense_logs', id, current_user(s))
                    /\ \A i \in 1..Len(expense_logs) :
                         expense_logs'[i] = expense_logs[i]
                 \/ /\ log_failures' = log_failures + 1
                    /\ expense_logs' = expense_logs
              /\ \A i \in 1..Len(expense_comments') :
                   i > Len(expense_comments)
                   => expense_comments'[i].expense_id = id]_vars

\* An expense was created and its "create" entry, by its requester, is
\* the whole log.
C11_Witness ==
  /\ outcome.res = "ok"
  /\ Len(expenses) = 1
  /\ expenses[1].status = "solicitado"
  /\ Len(expense_logs) = 1
  /\ CreateLogged(expense_logs, 1, expenses[1].requested_by)

SeqRange(q) == {q[i] : i \in 1..Len(q)}

\* The stored expenses of a supplier whose amount (stored in hundredths)
\* equals the asked one at two decimals and that are at most SimilarDays
\* days old.
SameSupplierAmountInWindow(supplier_id, amount) ==
  {i \in Rows :
     /\ expenses[i].supplier_id = supplier_id
     /\ expenses[i].amount = Round2(amount)
     /\ Today - expenses[i].created_at <= SimilarDays}

\* C12 as claimed: every answer of recent_similar_expenses holds exactly
\* the stored expenses of that supplier, of that amount at two decimals,
\* created within the last SimilarDays days: none else, none omitted.
C12_SimilarExact ==
  [][\A s \in Sessions, supplier_id \in SimilarSuppliers, amount \in SimilarAmounts :
       SimilarQuery(s, supplier_id, amount)
       => SeqRange(dupes'.ids)
            = SameSupplierAmountInWindow(supplier_id, amount)]_vars

\* C12 as the code has it: every answer holds only stored expenses of that
\* supplier, of that amount at two decimals, created within the window,
\* each once, newest first and at most SimilarLimit of them; an answer
\* that does not come from the cache omits a matching expense only when
\* it is full, and then none it omits is newer than one it holds.
C12_SimilarNewestUpToLimit ==
  [][\A s \in Sessions, supplier_id \in SimilarSuppliers, amount \in SimilarAmounts :
       SimilarQuery(s, supplier_id, amount)
       => LET ids == dupes'.ids
              matching == SameSupplierAmountInWindow(supplier_id, amount)
              fresh == ~similar_cache[<<supplier_id, amount>>].valid
          IN  /\ SeqRange(ids) \subseteq matching
              /\ Len(ids) <= SimilarLimit
              /\ Cardinality(SeqRange(ids)) = Len(ids)
              /\ \A i, j \in 1..Len(ids) :
                   i < j => expenses[ids[i]].created_at >= expenses[ids[j]].created_at
              /\ fresh =>
                   \A m \in matching \ SeqRange(ids) :
                     /\ Len(ids) = SimilarLimit
                     /\ \A i \in SeqRange(ids) :
                          expenses[m].created_at <= expenses[i].created_at]_vars

\* The hint for supplier sup1 holds an expense of 29 days ago and leaves
\* out the stored ones of 31 days ago, of another amount and of another
\* supplier.
C12_Witness ==
  /\ dupes.supplier_id = "sup1"
  /\ \E i \in SeqRange(dupes.ids) : expenses[i].created_at = Today - 29
  /\ \E i \in Rows \ SeqRange(dupes.ids) : expenses[i].created_at = Today - 31
  /\ \E i \in Rows \ SeqRange(dupes.ids) : expenses[i].amount # Round2(dupes.amount)
  /\ \E i \in Rows \ SeqRange(dupes.ids) : expenses[i].supplier_id = "sup2"

\* What C13 lets through: a logged-in user whose roles hold the guarded
\* role or administrador (administrador alone for the administrador page).
Allowed(s, p) ==
  /\ sb_session[s] \in Users
  /\ IF p = "administrador"
       THEN "administrador" \in user_roles[sb_session[s]]
       ELSE p \in user_roles[sb_session[s]]
            \/ "administrador" \in user_roles[sb_session[s]]

\* C13: every role guard fails closed: a page runs past its guard only
\* for a logged-in user whose roles hold the guarded role or administrador
\* (only administrador for require_administrador), it is stopped in every
\* other case, and with no session every guard denies.
C13_GuardsFailClosed ==
  [][\A s \in Sessions, p \in Pages :
       /\ Require(s, p) <=> Allowed(s, p)
       /\ sb_session[s] = NULL => ~Require(s, p)
       /\ PageRun(s, p) => Allowed(s, p)
       /\ Denied(s, p) => ~Allowed(s, p)]_vars

\* A session with no user has just been denied while another session,
\* of a user who is lector and not administrador, is on the lector page.
C13_Witness ==
  /\ outcome.res = "denied"
  /\ sb_session[outcome.s] = NULL
  /\ \E s \in Sessions :
       /\ page[s] = "lector"
       /\ sb_session[s] \in Users
       /\ "lector" \in user_roles[sb_session[s]]
       /\ "administrador" \notin user_roles[sb_session[s]]

\* C14: every stored expense has a status of the lifecycle: solicitado,
\* aprobado, rechazado or pagado; update_expense_status, which trims and
\* lower-cases its argument, and mark_expense_as_paid store no other value.
C14_StatusInDomain ==
  \A i \in Rows : expenses[i].status \in ESTADOS

\* An expense was moved by update_expense_status (its log entry is
\* written) and then paid by mark_expense_as_paid.
C14_Witness ==
  /\ \E i \in Rows : expenses[i].status = "pagado"
  /\ \E k \in 1..Len(expense_logs) :
       /\ expense_logs[k].action = "update"
       /\ expense_logs[k].details.new_status = "aprobado"
  /\ \E s \in Sessions : call[s].fn = "mark_expense_as_paid"

\* C18: update_expense_status accepts only solicitado, aprobado and
\* rechazado (after trimming and lower-casing): called with pagado or with
\* any value outside the four statuses it raises before any write, the
\* expense rows, the log and the comments unchanged and no log insert
\* pending; called with an accepted value it stores that value.
C18_InvalidTargetRaisesBeforeWrite ==
  [][\A s \in ApiCallers, expense_id \in Rows, new_status \in StatusInputs,
        comment \in ApiComments :
       update_expense_status(s, expense_id, current_user(s), new_status, comment)
       => IF StripLower(new_status) \in {"solicitado", "aprobado", "rechazado"}
          THEN /\ expenses'[expense_id].status = StripLower(new_status)
               /\ outcome'.res # "Estado invalido"
          ELSE /\ outcome'.res = "Estado invalido"
               /\ pc'[s] = "idle"
               /\ UNCHANGED <<expenses, expense_logs, expense_comments>>]_vars

\* A call of update_expense_status has just raised on an expense that an
\* earlier call, with an accepted target, had moved to rechazado.
C18_Witness ==
  /\ outcome.res = "Estado invalido"
  /\ \E i \in Rows : expenses[i].status = "rechazado"
  /\ \E k \in 1..Len(expense_logs) :
       /\ expense_logs[k].action = "update"
       /\ expense_logs[k].details.new_status = "rechazado"

\* C15: a save with a non-empty comment whose target status is the status
\* the expense has, in any of the four statuses and in either handler,
\* writes exactly one comment entry, by the acting user on that expense,
\* and nothing else: the rows and the log stay as they are and no log
\* insert is left to do.
C15_SameStatusCommentOnly ==
  [][\A s \in Sessions, new_status \in ESTADOS, comment \in Texts :
       (/\ SameStatus(s, new_status)
        /\ Strip(comment) # ""
        /\ \/ AprobadorGuardar(s, new_status, comment)
           \/ \E storage_ok \in BOOLEAN :
                PagadorGuardar(s, new_status, FALSE, NULL, comment, storage_ok))
       => /\ expense_comments' = Append(expense_comments,
               add_expense_comment_payload(exp[s].id, current_user(s), comment))
          /\ UNCHANGED <<expenses, expense_logs>>
          /\ pc'[s] # "log"]_vars

\* The status chosen in the form differs from the one the expense was read
\* with and from the one it has.
OtherStatus(s, new_status) ==
  /\ exp[s].id \in Rows
  /\ new_status # exp[s].status
  /\ new_status # expenses[exp[s].id].status

\* C16: a save that changes the status and carries a non-empty comment
\* writes the comment as a comment entry of its own, by the acting user on
\* that expense, and the log entry of the transition does not hold it.
C16_CommentNotFolded ==
  [][\A s \in Sessions, new_status \in ESTADOS, comment \in Texts :
       (/\ OtherStatus(s, new_status)
        /\ Strip(comment) # ""
        /\ \/ AprobadorGuardar(s, new_status, comment)
           \/ \E use_supporting_as_payment \in BOOLEAN, pay_file \in {NULL, "p"} :
                PagadorGuardar(s, new_status, use_supporting_as_payment,
                               pay_file, comment, TRUE)
        /\ expenses'[exp[s].id].status = new_status)
       => /\ expense_comments' = Append(expense_comments,
               add_expense_comment_payload(exp[s].id, current_user(s), comment))
          /\ pc'[s] = "log" => ~HasComment(call'[s].log)]_vars

\* C17: on the pagador page a save whose new status is aprobado or
\* rechazado and differs from the status the expense has moves the expense
\* to that status and leaves the log entry of the transition to be
\* written.
C17_PagadorMovesToAprobadoRechazado ==
  [][\A s \in Sessions, new_status \in {"aprobado", "rechazado"},
        use_supporting_as_payment \in BOOLEAN, pay_file \in {NULL, "p"},
        comment \in Texts, storage_ok \in BOOLEAN :
       (/\ OtherStatus(s, new_status)
        /\ PagadorGuardar(s, new_status, use_supporting_as_payment, pay_file,
                          comment, storage_ok))
       => /\ expenses'[exp[s].id].status = new_status
          /\ pc'[s] = "log"
          /\ call'[s].log.details.new_status = new_status]_vars

\* C19: a save as pagado that writes the row leaves the expense with
\* status pagado, paid_by the acting user, payment_doc_key the key of the
\* document supplied (the supporting document when it is reused, else the
\* uploaded file) and payment_date the date supplied, the current date
\* when "fecha de pago hoy" stays ticked.
C19_PagadoStoresPaymentFields ==
  [][\A s \in Sessions, use_supporting_as_payment \in BOOLEAN,
        pay_file \in {NULL, "p"}, comment \in Texts :
       (/\ PagadorGuardar(s, "pagado", use_supporting_as_payment, pay_file,
                          comment, TRUE)
        /\ pc'[s] = "log")
       => LET row == expenses'[exp[s].id]
          IN  /\ row.status = "pagado"
              /\ row.paid_by = current_user(s)
              /\ row.payment_doc_key =
                   IF use_supporting_as_payment /\ exp[s].supporting_doc_key # NULL
                   THEN exp[s].supporting_doc_key ELSE pay_file
              /\ "payment_date" \in DOMAIN row
              /\ row.payment_date = Today]_vars

\* The positions in the log of the status changes of expense i.
StatusLogs(i) ==
  {k \in 1..Len(expense_logs) :
     /\ expense_logs[k].expense_id = i
     /\ expense_logs[k].action = "update"
     /\ expense_logs[k].details.kind = "status_change"}

\* C20: the status update and the append of its log entry are atomic:
\* whenever no call is under way, also after a log insert that failed, an
\* expense that left solicitado, or came back to it, has the log entry of
\* that change: the last status change logged for it is to the status it
\* has, and an expense with no status change logged is solicitado.
C20_StatusAndLogAtomic ==
  (\A s \in Sessions : pc[s] # "log")
  => \A i \in Rows :
       IF StatusLogs(i) = {}
       THEN expenses[i].status = "solicitado"
       ELSE LET last == CHOOSE k \in StatusLogs(i) : \A j \in StatusLogs(i) : j <= k
            IN  expense_logs[last].details.new_status = expenses[i].status

\* C21: validation errors are raised before any write.  A call of
\* update_expense_status, mark_expense_as_paid, add_expense_comment or
\* create_expense_log that ends by rejecting its arguments leaves the
\* expenses, the log and the comments as they were, and a call writes a
\* row only with arguments that no later validation of the same call
\* rejects (those of the create_expense_log it goes on to make).
C21_ValidationBeforeWrite ==
  [][\A s \in ApiCallers :
       /\ (/\ pc[s] = "idle"
           /\ outcome'.s = s
           /\ outcome'.res \in {"ValueError", "Estado invalido"})
          => UNCHANGED <<expenses, expense_logs, expense_comments>>
       /\ (/\ pc[s] = "idle"
           /\ pc'[s] = "log"
           /\ expenses' # expenses)
          => create_expense_log_valid(call'[s].log.expense_id,
                                      call'[s].log.actor_id,
                                      call'[s].log.action)]_vars

\* C27: a transition asked for an expense id that no expense has fails at
\* once and writes nothing: the call of update_expense_status or
\* mark_expense_as_paid, its other arguments valid, ends with the tables
\* as they were and no log insert left to do, and no log entry is ever
\* inserted by a transition for an id that has no expense row.
C27_MissingExpenseWritesNothing ==
  [][\A s \in ApiCallers :
       /\ \A expense_id \in CallIds \ (Rows \cup {0}) :
            (\/ update_expense_status(s, expense_id, "u1", "aprobado", NULL)
             \/ mark_expense_as_paid(s, expense_id, "u1", "q", NULL))
            => /\ pc'[s] = "idle"
               /\ UNCHANGED <<expenses, expense_logs, expense_comments>>
       /\ LogInsert(s) => call[s].log.expense_id \in Rows]_vars

\* C22: in create_expense the log write comes strictly after the insert of
\* the row and is best-effort.  When the insert returns the new row, the
\* row is stored and the call returns its id whether or not the log write
\* succeeds; a log entry, if one is written, is the "create" entry of that
\* row, and when the log write fails (the insert raising, or
\* create_expense_log rejecting an empty requester) the log is as before
\* and no error reaches the caller.  When the insert returns no id the
\* call returns None and no log write is attempted.
C22_CreateLogAfterRowBestEffort ==
  [][\A s \in Sessions, requested_by \in CallActors, amount \in AmountInputs,
        supporting_doc_key \in {NULL, "q"}, insert \in InsertOutcomes,
        log_ok \in BOOLEAN :
       create_expense(s, requested_by, "sup1", amount, "Servicios",
                      supporting_doc_key, insert, log_ok)
       => IF insert = "returned"
          THEN /\ outcome'.res = "id"
               /\ Len(expenses') = Len(expenses) + 1
               /\ expenses'[Len(expenses')].requested_by = requested_by
               /\ IF log_ok /\ requested_by # NULL
                  THEN /\ Len(expense_logs') = Len(expense_logs) + 1
                       /\ CreateLogged(expense_logs', Len(expenses'), requested_by)
                       /\ log_failures' = log_failures
                  ELSE expense_logs' = expense_logs
          ELSE /\ outcome'.res = "None"
               /\ expense_logs' = expense_logs
               /\ log_failures' = log_failures]_vars

\* create_expense has returned the id of a stored expense whose log write
\* failed: the row is there, the log is empty.
C22_Witness ==
  /\ outcome.res = "id"
  /\ Len(expenses) = 1
  /\ expenses[1].requested_by = "u1"
  /\ expense_logs = <<>>
  /\ log_failures = 1

\* C26: the supporting document is uploaded strictly before the expense is
\* created: a submission whose upload fails writes no expense row, no log
\* entry and no comment, and a submission that stores an expense is one
\* whose upload succeeded, the row holding the key of the uploaded file.
C26_UploadBeforeCreate ==
  [][\A s \in Sessions, supplier_id \in Suppliers \cup {NULL},
        amount \in AmountInputs, categoria \in Categories,
        file \in {NULL, "q"}, comentario_inicial \in Texts,
        upload_ok \in BOOLEAN, log_ok \in BOOLEAN :
       SolicitudNueva(s, supplier_id, amount, categoria, file,
                      comentario_inicial, upload_ok, log_ok)
       => /\ ~upload_ok
             => /\ UNCHANGED <<expenses, expense_logs, expense_comments>>
                /\ outcome'.res # "ok"
          /\ expenses' # expenses
             => /\ upload_ok
                /\ file # NULL
                /\ expenses'[Len(expenses')].supporting_doc_key = file]_vars

\* A submission with every field filled in has just failed at the upload,
\* and nothing is stored.
C26_Witness ==
  /\ outcome.res = "StorageError"
  /\ expenses = <<>>
  /\ expense_logs = <<>>
  /\ expense_comments = <<>>

\* q extends p: p is the beginning of q.
Extends(q, p) ==
  /\ Len(q) >= Len(p)
  /\ \A i \in 1..Len(p) : q[i] = p[i]

WritesRow(s, fn) ==
  /\ pc[s] # "log"
  /\ pc'[s] = "log"
  /\ call'[s].fn = fn

\* C24: no transition and no comment changes the requester, the supplier,
\* the amount, the category or the supporting document key of an expense:
\* every step leaves them as creation set them; the row update of
\* update_expense_status also leaves paid_by and payment_doc_key as they
\* were, and that of mark_expense_as_paid leaves approved_by as it was.
C24_CreationFieldsKept ==
  [][\A i \in Rows :
       /\ expenses'[i].requested_by = expenses[i].requested_by
       /\ expenses'[i].supplier_id = expenses[i].supplier_id
       /\ expenses'[i].amount = expenses[i].amount
       /\ expenses'[i].category = expenses[i].category
       /\ expenses'[i].supporting_doc_key = expenses[i].supporting_doc_key
       /\ (\E s \in Sessions : WritesRow(s, "update_expense_status"))
          => /\ expenses'[i].paid_by = expenses[i].paid_by
             /\ expenses'[i].payment_doc_key = expenses[i].payment_doc_key
       /\ (\E s \in Sessions : WritesRow(s, "mark_expense_as_paid"))
          => expenses'[i].approved_by = expenses[i].approved_by]_vars

\* An expense approved by one user has been paid by another: the approver
\* and the payer are there next to the creation values.
C24_Witness ==
  \E i \in Rows :
    /\ expenses[i].status = "pagado"
    /\ expenses[i].approved_by # NULL
    /\ expenses[i].paid_by # NULL
    /\ expenses[i].approved_by # expenses[i].paid_by
    /\ expenses[i].requested_by # NULL
    /\ expenses[i].supporting_doc_key = "q"

\* C25: set_user_roles replaces the roles of a user atomically: in every
\* state, also while the call is under way and after a request of it
\* failed, the roles of the user it was last called for are the set they
\* were before the call or the valid ones among the roles asked for, and
\* never the empty set when both of these are non-empty.
C25_SetRolesAtomic ==
  \A s \in ApiCallers :
    roles_call[s].user_id # NULL
    => /\ user_roles[roles_call[s].user_id] \in {roles_call[s].old, roles_call[s].new}
       /\ (roles_call[s].old # {} /\ roles_call[s].new # {})
          => user_roles[roles_call[s].user_id] # {}

\* C28: the audit trail stays consistent with the current state: when no
\* log insert has failed and no transition is between its two writes,
\* the status of each expense is the new_status of the status change
\* logged last for it, or solicitado when none is logged, however the
\* transitions of two sessions on the expense were interleaved.
C28_LastLogIsStatus ==
  (log_failures = 0 /\ \A s \in Sessions : pc[s] # "log")
  => \A i \in Rows :
       \/ StatusLogs(i) = {} /\ expenses[i].status = "solicitado"
       \/ \E k \in StatusLogs(i) :
            /\ \A j \in StatusLogs(i) : j <= k
            /\ expense_logs[k].details.new_status = expenses[i].status

\* C29: when some user administers at the start, some user administers
\* after any interleaving of the role edits two administrators make on
\* the administrador page.
C29_SomeAdministradorRemains ==
  \E u \in Users : "administrador" \in user_roles[u]

\* C30: on the login page a one-time code goes to an address only in a
\* step in which is_registered_email answers true for that address, on
\* the first send and on every resend; otp_sent becomes true only in a
\* step that sends a code to the address kept in otp_email; a verified
\* code and "Cambiar correo" clear otp_sent and otp_email, which is the
\* email step for a visitor not signed in.
C30_OtpOnlyToRegistered ==
  [][/\ sent_otps' # sent_otps
        => \E email \in EmailInputs :
             /\ sent_otps' = Append(sent_otps, EmailStrip(email))
             /\ EmailStrip(email) # ""
             /\ is_registered_email(EmailStrip(email))
     /\ \A s \in Sessions :
          /\ (~otp_sent[s] /\ otp_sent'[s])
             => /\ sent_otps' = Append(sent_otps, otp_email'[s])
                /\ outcome'.res = "Codigo enviado"
          /\ (otp_sent[s] /\ otp_sent'[s]) => otp_email'[s] = otp_email[s]
          /\ (outcome'.s = s /\ outcome'.res \in {"Autenticado", "Cambiar correo"})
             => /\ otp_sent[s]
                /\ ~otp_sent'[s]
                /\ otp_email'[s] = ""
          /\ ~otp_sent'[s] => otp_email'[s] = ""]_vars

\* A code was sent and sent again to an address, and the session that
\* asked for it then verified a code and is signed in with the form back
\* at the email step.
C30_Witness ==
  /\ Len(sent_otps) = 2
  /\ sent_otps[1] = sent_otps[2]
  /\ outcome.res = "Autenticado"
  /\ sb_session[outcome.s] # NULL
  /\ ~otp_sent[outcome.s]

=============================================================================
